---- MODULE Spec2Model ----
(***************************************************************************)
(* AlphaQuery: the date range resolver (core/date_parser.py), the query    *)
(* executors (core/executor.py and the older executor.py), the entity      *)
(* extractor (core/entity_extractor.py), the dashboard's Analyze handler   *)
(* (ui/app.py) and the loop of scripts/run_query_tests.py as state         *)
(* machines.                                                               *)
(*                                                                         *)
(* A datetime is the number of seconds since 2020-01-01 00:00:00 (naive,   *)
(* second granularity, as the code only builds whole seconds).  An         *)
(* optional value is a sequence: <<>> is None and <<x>> is the value x.    *)
(* A query is the sequence of its blank-separated words; a word is a       *)
(* record [w, d]: letters in w for an alphabetic word, decimal digits in d *)
(* for a number.                                                           *)
(***************************************************************************)
EXTENDS Integers, Sequences, FiniteSets, TLC

VARIABLES
    query,      \* the text typed so far, as a sequence of words
    typed,      \* number of phrases typed into the query
    clock,      \* what datetime.now() returns
    date_out,   \* outcome of the last DateParser.parse call
    df,         \* Executor.df, the base table (sequence of rows)
    call,       \* arguments of the last Executor.execute call
    exec_out,   \* outcome of the last Executor.execute call
    sess,       \* per-session position and locals of the Analyze handler
    merchants,  \* EntityExtractor.merchants, the names read from the file
    ent_out,    \* outcome of the last EntityExtractor.extract call
    int_out     \* outcome of the last IntentMatcher.match_intent call

vars ==
    <<query, typed, clock, date_out, df, call, exec_out, sess, merchants, ent_out,
      int_out>>

\* ------------------------------------------------------------------ bounds
MaxPhrases == 2
MaxRows == 2

\* -------------------------------------------------------------- optionals
None == <<>>
Some(x) == <<x>>
Val(o) == o[1]

\* --------------------------------------------------------------- calendar
IsLeap(y) == (y % 4 = 0 /\ y % 100 # 0) \/ y % 400 = 0

\* calendar.monthrange(year, month)[1]
monthrange(y, m) ==
    IF m = 2 THEN (IF IsLeap(y) THEN 29 ELSE 28)
    ELSE IF m \in {4, 6, 9, 11} THEN 30 ELSE 31

DaysBeforeYear(y) ==
    365 * (y - 1) + ((y - 1) \div 4) - ((y - 1) \div 100) + ((y - 1) \div 400)

RECURSIVE DaysBeforeMonth(_, _)
DaysBeforeMonth(y, m) ==
    IF m = 1 THEN 0 ELSE DaysBeforeMonth(y, m - 1) + monthrange(y, m - 1)

\* days from 2020-01-01 to y-m-d
toordinal(y, m, d) ==
    DaysBeforeYear(y) - DaysBeforeYear(2020) + DaysBeforeMonth(y, m) + d - 1

\* datetime(y, m, d, H, M, S)
datetime(y, m, d, H, M, S) == toordinal(y, m, d) * 86400 + H * 3600 + M * 60 + S

OrdinalOf(dt) == dt \div 86400

YearOf(dt) ==
    CHOOSE y \in 2022..2027 :
        /\ toordinal(y, 1, 1) <= OrdinalOf(dt)
        /\ OrdinalOf(dt) < toordinal(y + 1, 1, 1)

MonthOf(dt) ==
    LET y == YearOf(dt)
    IN  CHOOSE m \in 1..12 :
            /\ toordinal(y, m, 1) <= OrdinalOf(dt)
            /\ OrdinalOf(dt) < toordinal(y, m, 1) + monthrange(y, m)

DayOf(dt) == OrdinalOf(dt) - toordinal(YearOf(dt), MonthOf(dt), 1) + 1

\* datetime.weekday(): Monday is 0; 2020-01-01 was a Wednesday
weekday(dt) == (OrdinalOf(dt) + 2) % 7

\* timedelta(days=n), timedelta(seconds=1) are plain numbers of seconds
timedelta_days(n) == n * 86400

\* strftime("%Y-%m") and str(Period[M]): the label of a calendar month
YearMonth(dt) == <<YearOf(dt), MonthOf(dt)>>

\* ------------------------------------------------------------------ words
W(s) == [w |-> s, d |-> <<>>]
N(ds) == [w |-> "", d |-> ds]

IsAlpha(t) == t.w # ""
IsDigits(t) == t.w = "" /\ Len(t.d) >= 1

RECURSIVE int(_)
\* int("2025") = 2025
int(ds) == IF ds = <<>> THEN 0 ELSE 10 * int(SubSeq(ds, 1, Len(ds) - 1)) + ds[Len(ds)]

MonthNames ==
    <<"january", "february", "march", "april", "may", "june", "july",
      "august", "september", "october", "november", "december">>

IsMonthName(t) == \E i \in 1..12 : MonthNames[i] = t.w

\* datetime.strptime(name, "%B").month
MonthNumber(t) == CHOOSE i \in 1..12 : MonthNames[i] = t.w

\* least element of a non-empty set of naturals
Least(S) == CHOOSE x \in S : \A y \in S : x <= y

\* ------------------------------------------------- core/date_parser.py
\* a returned pair (start, end), or an exception leaving parse
Range(s, e) == [raised |-> FALSE, start |-> Some(s), end |-> Some(e)]
NoRange == [raised |-> FALSE, start |-> None, end |-> None]
Raised == [raised |-> TRUE, start |-> None, end |-> None]

\* DateParser._start, DateParser._end
_start(dt) == datetime(YearOf(dt), MonthOf(dt), DayOf(dt), 0, 0, 0)
_end(dt) == datetime(YearOf(dt), MonthOf(dt), DayOf(dt), 23, 59, 59)

\* DateParser._full_month
_full_month(year, month) ==
    Range(_start(datetime(year, month, 1, 0, 0, 0)),
          _end(datetime(year, month, monthrange(year, month), 0, 0, 0)))

\* "<a> <b>" in q, for two words a and b
HasPair(q, a, b) == \E i \in 1..(Len(q) - 1) : q[i] = W(a) /\ q[i + 1] = W(b)
HasWord(q, a) == \E i \in 1..Len(q) : q[i] = W(a)

\* The free-text parser dateparser.parse, on the date phrases of the model:
\* "<month> <day>" (of the current year) and "<month> <day> <year>"; any
\* other text, and a day the month does not have, gives None.
dateparser_parse(text, now) ==
    IF /\ Len(text) \in {2, 3}
       /\ IsMonthName(text[1])
       /\ IsDigits(text[2]) /\ Len(text[2].d) <= 2
       /\ (Len(text) = 3 => IsDigits(text[3]) /\ Len(text[3].d) = 4)
    THEN LET y == IF Len(text) = 3 THEN int(text[3].d) ELSE YearOf(now)
             m == MonthNumber(text[1])
             d == int(text[2].d)
         IN  IF d >= 1 /\ d <= monthrange(y, m)
             THEN Some(datetime(y, m, d, 0, 0, 0)) ELSE None
    ELSE None

\* re.search(r"between\s+(.+?)\s+and\s+(.+)", q): the leftmost "between"
\* with an "and" after at least one word and before at least one word; the
\* first group is lazy (up to the first such "and"), the second is the rest
BetweenStarts(q) ==
    {i \in 1..Len(q) : q[i] = W("between")
                       /\ \E j \in (i + 2)..(Len(q) - 1) : q[j] = W("and")}
BetweenMatches(q) == BetweenStarts(q) # {}
BetweenAnd(q) ==
    Least({j \in (Least(BetweenStarts(q)) + 2)..(Len(q) - 1) : q[j] = W("and")})
BetweenGroup1(q) == SubSeq(q, Least(BetweenStarts(q)) + 1, BetweenAnd(q) - 1)
BetweenGroup2(q) == SubSeq(q, BetweenAnd(q) + 1, Len(q))
BetweenParses(q, now) ==
    /\ BetweenMatches(q)
    /\ dateparser_parse(BetweenGroup1(q), now) # None
    /\ dateparser_parse(BetweenGroup2(q), now) # None
rule_between(q, now) ==
    Range(_start(Val(dateparser_parse(BetweenGroup1(q), now))),
          _end(Val(dateparser_parse(BetweenGroup2(q), now))))

rule_yesterday(now) ==
    Range(_start(now - timedelta_days(1)), _end(now - timedelta_days(1)))

\* the seven days that end yesterday instead of the week before this one
rule_last_week_trailing(now) ==
    LET start == now - timedelta_days(7)
        end == start + timedelta_days(6)
    IN  Range(_start(start), _end(end))

rule_last_week(now) ==
    LET start == now - timedelta_days(weekday(now) + 7)
        end == start + timedelta_days(6)
    IN  Range(_start(start), _end(end))

\* re.search(r"last\s+(\d+)\s+days", q)
LastDaysAt(q) ==
    {i \in 1..(Len(q) - 2) :
        q[i] = W("last") /\ IsDigits(q[i + 1]) /\ q[i + 2] = W("days")}
rule_last_days(q, now) ==
    LET days == int(q[Least(LastDaysAt(q)) + 1].d)
        start == now - timedelta_days(days)
    IN  Range(_start(start), _end(now))

\* re.search(r"since\s+(january|...|december)", q)
SinceAt(q) ==
    {i \in 1..(Len(q) - 1) : q[i] = W("since") /\ IsMonthName(q[i + 1])}
\* the since rule returning its start alone
rule_since_open(q, now) ==
    LET month == MonthNumber(q[Least(SinceAt(q)) + 1])
        start == datetime(YearOf(now), month, 1, 0, 0, 0)
    IN  [raised |-> FALSE, start |-> Some(_start(start)), end |-> None]

rule_since(q, now) ==
    LET month == MonthNumber(q[Least(SinceAt(q)) + 1])
        start == datetime(YearOf(now), month, 1, 0, 0, 0)
    IN  Range(_start(start), _end(now))

\* re.search(r"on\s+([a-z]+)\s+(\d{1,2}),?\s*(\d{4})", q)
OnAt(q) ==
    {i \in 1..(Len(q) - 3) :
        /\ q[i] = W("on")
        /\ IsAlpha(q[i + 1])
        /\ IsDigits(q[i + 2]) /\ Len(q[i + 2].d) <= 2
        /\ IsDigits(q[i + 3]) /\ Len(q[i + 3].d) = 4}
\* datetime.strptime("<word> <day> <year>", "%B %d %Y") raises ValueError
\* unless the word is a month name and the day exists in that month
StrptimeOk(word, day, year) ==
    /\ IsMonthName(word)
    /\ int(year.d) >= 1
    /\ int(day.d) >= 1
    /\ int(day.d) <= monthrange(int(year.d), MonthNumber(word))
rule_specific_date(q) ==
    LET i == Least(OnAt(q))
    IN  IF StrptimeOk(q[i + 1], q[i + 2], q[i + 3])
        THEN LET dt == datetime(int(q[i + 3].d), MonthNumber(q[i + 1]),
                                int(q[i + 2].d), 0, 0, 0)
             IN  Range(_start(dt), _end(dt))
        ELSE Raised

rule_last_month(now) ==
    LET mth == MonthOf(now) - 1
    IN  IF mth = 0 THEN _full_month(YearOf(now) - 1, 12)
        ELSE _full_month(YearOf(now), mth)

rule_this_month(now) == _full_month(YearOf(now), MonthOf(now))

rule_this_year(now) ==
    Range(_start(datetime(YearOf(now), 1, 1, 0, 0, 0)),
          _end(datetime(YearOf(now), 12, 31, 0, 0, 0)))

rule_last_year(now) ==
    Range(_start(datetime(YearOf(now) - 1, 1, 1, 0, 0, 0)),
          _end(datetime(YearOf(now) - 1, 12, 31, 0, 0, 0)))

\* re.search(r"in\s+(january|...|december)", q)
InAt(q) ==
    {i \in 1..(Len(q) - 1) : q[i] = W("in") /\ IsMonthName(q[i + 1])}
rule_in_month(q, now) ==
    _full_month(YearOf(now), MonthNumber(q[Least(InAt(q)) + 1]))

\* re.search(r"\b(19|20)\d{2}\b", q)
YearAt(q) ==
    {i \in 1..Len(q) :
        /\ IsDigits(q[i]) /\ Len(q[i].d) = 4
        /\ SubSeq(q[i].d, 1, 2) \in {<<1, 9>>, <<2, 0>>}}
rule_year(q) ==
    LET year == int(q[Least(YearAt(q))].d)
    IN  Range(_start(datetime(year, 1, 1, 0, 0, 0)),
              _end(datetime(year, 12, 31, 0, 0, 0)))

rule_fallback(q, now) ==
    LET parsed == dateparser_parse(q, now)
    IN  IF parsed # None THEN Range(_start(Val(parsed)), _end(Val(parsed)))
        ELSE NoRange

\* DateParser.parse, with now = datetime.now() read by the caller's step
parse(q, now) ==
    IF q = <<>> THEN NoRange
    ELSE IF BetweenParses(q, now) THEN rule_between(q, now)
    ELSE IF HasWord(q, "yesterday") THEN rule_yesterday(now)
    ELSE IF HasPair(q, "last", "week") THEN rule_last_week(now)
    ELSE IF LastDaysAt(q) # {} THEN rule_last_days(q, now)
    ELSE IF SinceAt(q) # {} THEN rule_since(q, now)
    ELSE IF OnAt(q) # {} THEN rule_specific_date(q)
    ELSE IF HasPair(q, "last", "month") THEN rule_last_month(now)
    ELSE IF HasPair(q, "this", "month") THEN rule_this_month(now)
    ELSE IF HasPair(q, "this", "year") THEN rule_this_year(now)
    ELSE IF HasPair(q, "last", "year") THEN rule_last_year(now)
    ELSE IF InAt(q) # {} THEN rule_in_month(q, now)
    ELSE IF YearAt(q) # {} THEN rule_year(q)
    ELSE rule_fallback(q, now)

\* ------------------------------------------------ the resolver's inputs
\* the phrases a query is typed from
Phrases ==
    { <<W("between"), W("march"), N(<<5>>)>>,
      <<W("and"), W("january"), N(<<9>>), N(<<2, 0, 2, 5>>)>>,
      <<W("between"), W("food")>>,
      <<W("yesterday")>>,
      <<W("last"), W("week")>>,
      <<W("last"), N(<<3>>), W("days")>>,
      <<W("since"), W("december")>>,
      <<W("on"), W("march"), N(<<5>>), N(<<2, 0, 2, 5>>)>>,
      <<W("on"), W("food"), N(<<5>>), N(<<2, 0, 2, 5>>)>>,
      <<W("on"), W("february"), N(<<3, 0>>), N(<<2, 0, 2, 5>>)>>,
      <<W("last"), W("month")>>,
      <<W("this"), W("month")>>,
      <<W("this"), W("year")>>,
      <<W("last"), W("year")>>,
      <<W("in"), W("february")>>,
      <<N(<<2, 0, 2, 4>>)>>,
      <<W("march"), N(<<5>>)>> }

\* the readings of the system clock, in increasing order: a leap day (a
\* Thursday), a Monday in January, a Sunday, and the Monday after it at the
\* last second of a 30-day month
ClockValues ==
    << datetime(2024, 2, 29, 8, 0, 0),
       datetime(2025, 1, 6, 10, 30, 0),
       datetime(2025, 6, 29, 12, 0, 0),
       datetime(2025, 6, 30, 23, 59, 59) >>

IdleDate == [called |-> FALSE, q |-> <<>>, now |-> 0, out |-> NoRange]
IdleCall == [called |-> FALSE]

InitDate ==
    /\ query = <<>>
    /\ typed = 0
    /\ clock = 1
    /\ date_out = IdleDate
    /\ df = <<>>
    /\ call = IdleCall
    /\ exec_out = IdleCall
    /\ sess = <<>>
    /\ merchants = <<>>
    /\ ent_out = IdleCall
    /\ int_out = IdleCall

\* the user types one more phrase into the query box
Type(p) ==
    /\ typed < MaxPhrases
    /\ ~date_out.called
    /\ ~ent_out.called
    /\ query' = query \o p
    /\ typed' = typed + 1
    /\ UNCHANGED <<clock, date_out, df, call, exec_out, sess, merchants, ent_out, int_out>>

\* time passes
Tick ==
    /\ clock < Len(ClockValues)
    /\ clock' = clock + 1
    /\ UNCHANGED <<query, typed, date_out, df, call, exec_out, sess, merchants, ent_out, int_out>>

\* date_parser.parse(query): reads datetime.now() and runs the cascade
Parse ==
    /\ ~date_out.called
    /\ date_out' = [called |-> TRUE, q |-> query, now |-> ClockValues[clock],
                    out |-> parse(query, ClockValues[clock])]
    /\ UNCHANGED <<query, typed, clock, df, call, exec_out, sess, merchants, ent_out, int_out>>

\* date_parser.parse(query) is called once more on the same text
ParseAgain ==
    /\ date_out.called
    /\ date_out' = [called |-> TRUE, q |-> query, now |-> ClockValues[clock],
                    out |-> parse(query, ClockValues[clock])]
    /\ UNCHANGED <<query, typed, clock, df, call, exec_out, sess, merchants, ent_out, int_out>>

\* the query box is emptied for the next query
Clear ==
    /\ date_out.called
    /\ query' = <<>>
    /\ typed' = 0
    /\ date_out' = IdleDate
    /\ UNCHANGED <<clock, df, call, exec_out, sess, merchants, ent_out, int_out>>

NextDate ==
    \/ \E p \in Phrases : Type(p)
    \/ Tick
    \/ Parse
    \/ ParseAgain
    \/ Clear

SpecDate == InitDate /\ [][NextDate]_vars

\* --------------------------------------------------- core/executor.py
\* A row of the table: date (a datetime), amount, category, merchant and
\* description.  A table is a sequence of rows (the row order of the frame).
RECURSIVE SumAmount(_)
\* df["amount"].sum()
SumAmount(table) ==
    IF table = <<>> THEN 0 ELSE table[1].amount + SumAmount(Tail(table))

\* truth value of an optional string / an optional integer in an `if`
TruthyStr(o) == o # None /\ Val(o) # ""
TruthyInt(o) == o # None /\ Val(o) # 0

\* the category labels of the model in sorted order, as groupby sorts them
CategoryOrder == <<"food", "rent", "transport">>

CategorySum(table, c) == SumAmount(SelectSeq(table, LAMBDA r : r.category = c))
Categories(table) == {table[i].category : i \in 1..Len(table)}

\* df.groupby("category")["amount"].sum().idxmax(): the first group, in
\* sorted label order, whose sum is the greatest
idxmax_by_category(table) ==
    LET best(i) ==
            /\ CategoryOrder[i] \in Categories(table)
            /\ \A c \in Categories(table) :
                   CategorySum(table, c) <= CategorySum(table, CategoryOrder[i])
    IN  CategoryOrder[Least({i \in 1..Len(CategoryOrder) : best(i)})]

\* the returned values, tagged by their shape
IntResult(n) == [kind |-> "int", value |-> n]
ListResult(rows) == [kind |-> "list", value |-> rows]
LabelResult(o) == [kind |-> "label", value |-> o]
DictResult(d) == [kind |-> "dict", value |-> d]
MeanResult(total, count) == [kind |-> "float", value |-> <<total, count>>]
ErrorResult(intent) == [kind |-> "error", value |-> intent]

\* to_dict(orient="records") without the column selection: every column
to_records_all_columns(table) ==
    [i \in 1..Len(table) |-> table[i]]

\* df[["date", "amount", "category", "merchant"]].to_dict(orient="records")
to_records(table) ==
    [i \in 1..Len(table) |->
        [date |-> table[i].date, amount |-> table[i].amount,
         category |-> table[i].category, merchant |-> table[i].merchant]]

\* the date filter of execute and of _compare_periods
BetweenDates(table, start, end) ==
    SelectSeq(table, LAMBDA r : r.date >= start /\ r.date <= end)

\* the category and merchant filters
ByCategory(table, entities) ==
    IF TruthyStr(entities.category)
    THEN SelectSeq(table, LAMBDA r : r.category = Val(entities.category))
    ELSE table
ByMerchant(table, entities) ==
    IF TruthyStr(entities.merchant)
    THEN SelectSeq(table, LAMBDA r : r.merchant = Val(entities.merchant))
    ELSE table
ByAmount(table, entities) ==
    IF TruthyInt(entities.amount)
    THEN SelectSeq(table, LAMBDA r : r.amount >= Val(entities.amount))
    ELSE table

\* lines 24-39 of execute: the working set from the private copy
filtered(work, entities, start_date, end_date) ==
    LET dated == IF start_date # None /\ end_date # None
                 THEN BetweenDates(work, Val(start_date), Val(end_date))
                 ELSE work
    IN  ByAmount(ByMerchant(ByCategory(dated, entities), entities), entities)

\* Executor._top_category, reading self.df
top_category(self_df) ==
    IF self_df = <<>> THEN None ELSE Some(idxmax_by_category(self_df))

\* a dict literal {k1: v1, k2: v2}: the later of two equal keys wins
Dict2(k1, v1, k2, v2) == [k \in {k1, k2} |-> IF k = k2 THEN v2 ELSE v1]

\* _compare_periods without the early return of lines 80-81: with a bound
\* missing it reports the total of the whole table
compare_periods_no_early_return(self_df, start_date, end_date, entities) ==
    IF start_date = None \/ end_date = None
    THEN [k \in {<<0, 0>>} |-> SumAmount(ByMerchant(ByCategory(self_df, entities), entities))]
    ELSE
    LET start == Val(start_date)
        end == Val(end_date)
        delta == end - start
        prev_end == start - 1
        prev_start == prev_end - delta
    IN  Dict2(YearMonth(start),
              SumAmount(ByMerchant(ByCategory(BetweenDates(self_df, start, end),
                                              entities), entities)),
              YearMonth(prev_start),
              SumAmount(ByMerchant(ByCategory(
                  BetweenDates(self_df, prev_start, prev_end), entities), entities)))

\* Executor._compare_periods, reading self.df
compare_periods(self_df, start_date, end_date, entities) ==
    IF start_date = None \/ end_date = None THEN <<>>
    ELSE
    LET start == Val(start_date)
        end == Val(end_date)
        current_df ==
            ByMerchant(ByCategory(BetweenDates(self_df, start, end), entities),
                       entities)
        current_total == SumAmount(current_df)
        delta == end - start
        prev_end == start - 1
        prev_start == prev_end - delta
        prev_df ==
            ByMerchant(ByCategory(BetweenDates(self_df, prev_start, prev_end),
                                  entities), entities)
        prev_total == SumAmount(prev_df)
    IN  Dict2(YearMonth(start), current_total, YearMonth(prev_start), prev_total)

\* dispatch without the final raise: an unknown intent gets a number
dispatch_no_raise(work, self_df, intent, entities, start_date, end_date) ==
    LET df_ == filtered(work, entities, start_date, end_date)
    IN  IF intent = "list_transactions" THEN ListResult(to_records(df_))
        ELSE IF intent = "top_category" THEN LabelResult(top_category(self_df))
        ELSE IF intent = "compare_periods"
             THEN DictResult(compare_periods(self_df, start_date, end_date, entities))
        ELSE IF intent = "average_spend"
             THEN (IF df_ # <<>> THEN MeanResult(SumAmount(df_), Len(df_))
                   ELSE IntResult(0))
        ELSE IntResult(SumAmount(df_))

\* dispatch taking the mean without the guard for an empty frame
dispatch_mean_unguarded(work, self_df, intent, entities, start_date, end_date) ==
    LET df_ == filtered(work, entities, start_date, end_date)
    IN  IF intent = "total_spend" THEN IntResult(SumAmount(df_))
        ELSE IF intent = "list_transactions" THEN ListResult(to_records(df_))
        ELSE IF intent = "top_category" THEN LabelResult(top_category(self_df))
        ELSE IF intent = "compare_periods"
             THEN DictResult(compare_periods(self_df, start_date, end_date, entities))
        ELSE IF intent = "average_spend"
             THEN MeanResult(SumAmount(df_), Len(df_))
        ELSE ErrorResult(intent)

\* lines 24-59 of execute, with work the copy made on line 22 and self_df
\* the base table as the aggregations read it
dispatch(work, self_df, intent, entities, start_date, end_date) ==
    LET df_ == filtered(work, entities, start_date, end_date)
    IN  IF intent = "total_spend" THEN IntResult(SumAmount(df_))
        ELSE IF intent = "list_transactions" THEN ListResult(to_records(df_))
        ELSE IF intent = "top_category" THEN LabelResult(top_category(self_df))
        ELSE IF intent = "compare_periods"
             THEN DictResult(compare_periods(self_df, start_date, end_date, entities))
        ELSE IF intent = "average_spend"
             THEN (IF df_ # <<>> THEN MeanResult(SumAmount(df_), Len(df_))
                   ELSE IntResult(0))
        ELSE ErrorResult(intent)

\* execute filtering self.df itself instead of a copy
execute_in_place(self_df, intent, entities, start_date, end_date) ==
    [df |-> filtered(self_df, entities, start_date, end_date),
     result |-> dispatch(self_df, self_df, intent, entities, start_date, end_date)]

\* Executor.execute: the base table it leaves in self.df, and what it
\* returns or raises
execute(self_df, intent, entities, start_date, end_date) ==
    [df |-> self_df,
     result |-> dispatch(self_df, self_df, intent, entities, start_date, end_date)]

\* ------------------------------------------- executor.py (used by api.py)
\* the months of pd.period_range(start, end, freq="M")
MonthIndex(ym) == ym[1] * 12 + ym[2] - 1
period_range(start, end) ==
    LET first == MonthIndex(YearMonth(start))
        last == MonthIndex(YearMonth(end))
    IN  {ym \in (2022..2027) \X (1..12) :
            first <= MonthIndex(ym) /\ MonthIndex(ym) <= last}

legacy_compare_periods(df_, start_date, end_date) ==
    IF start_date = None \/ end_date = None THEN <<>>
    ELSE [p \in period_range(Val(start_date), Val(end_date)) |->
             SumAmount(SelectSeq(df_, LAMBDA r : YearMonth(r.date) = p))]

legacy_execute(self_df, intent, entities, start_date, end_date) ==
    LET df_ == filtered(self_df, entities, start_date, end_date)
        result ==
            IF intent = "total_spend" THEN IntResult(SumAmount(df_))
            ELSE IF intent = "list_transactions" THEN ListResult(to_records(df_))
            ELSE IF intent = "top_category"
                 THEN (IF df_ = <<>> THEN LabelResult(None)
                       ELSE LabelResult(Some(idxmax_by_category(df_))))
            ELSE IF intent = "compare_periods"
                 THEN DictResult(legacy_compare_periods(df_, start_date, end_date))
            ELSE IF intent = "average_spend"
                 THEN (IF df_ # <<>> THEN MeanResult(SumAmount(df_), Len(df_))
                       ELSE IntResult(0))
            ELSE ErrorResult(intent)
    IN  [df |-> self_df, result |-> result]

\* ------------------------------------------------ the executors' inputs
Row(dt, amount, category, merchant) ==
    [date |-> dt, amount |-> amount, category |-> category,
     merchant |-> merchant, description |-> "note"]

\* the rows a transactions file is made of; a refund has a negative amount
Ledger ==
    { Row(datetime(2024, 12, 15, 0, 0, 0), 40, "transport", "uber"),
      Row(datetime(2025, 1, 10, 0, 0, 0), 100, "food", "zomato"),
      Row(datetime(2025, 1, 31, 0, 0, 0), 0 - 50, "food", "zomato"),
      Row(datetime(2025, 2, 28, 0, 0, 0), 250, "rent", "landlord") }

Intents ==
    {"total_spend", "list_transactions", "top_category", "compare_periods",
     "average_spend", "set_budget"}
KnownIntents ==
    {"total_spend", "list_transactions", "top_category", "compare_periods",
     "average_spend"}

\* what EntityExtractor.extract can hand over: each field None or a value
EntityValues ==
    [category : {None, Some("food"), Some("gifts")},
     merchant : {None, Some("zomato")},
     amount : {None, Some(0), Some(100)}]

\* the date ranges handed over: none, two full months, one full month, the
\* last two days of a month, a range over two months cut at both ends, a
\* full month that is longer than the month before it, and a start without
\* an end
DateRanges ==
    { <<None, None>>,
      <<Some(datetime(2025, 1, 1, 0, 0, 0)), Some(datetime(2025, 2, 28, 23, 59, 59))>>,
      <<Some(datetime(2025, 1, 1, 0, 0, 0)), Some(datetime(2025, 1, 31, 23, 59, 59))>>,
      <<Some(datetime(2025, 1, 30, 0, 0, 0)), Some(datetime(2025, 1, 31, 23, 59, 59))>>,
      <<Some(datetime(2025, 1, 10, 0, 0, 0)), Some(datetime(2025, 2, 27, 23, 59, 59))>>,
      <<Some(datetime(2025, 3, 1, 0, 0, 0)), Some(datetime(2025, 3, 31, 23, 59, 59))>>,
      <<Some(datetime(2025, 1, 1, 0, 0, 0)), None>> }

InitExec ==
    /\ query = <<>>
    /\ typed = 0
    /\ clock = 1
    /\ date_out = IdleDate
    /\ df = <<>>
    /\ call = IdleCall
    /\ exec_out = IdleCall
    /\ sess = <<>>
    /\ merchants = <<>>
    /\ ent_out = IdleCall
    /\ int_out = IdleCall

\* Executor.__init__ reading one more row of the transactions file
Load(r) ==
    /\ ~call.called
    /\ Len(df) < MaxRows
    /\ df' = Append(df, r)
    /\ UNCHANGED <<query, typed, clock, date_out, call, exec_out, sess, merchants, ent_out, int_out>>

Called(impl, intent, entities, range) ==
    [called |-> TRUE, impl |-> impl, df |-> df, intent |-> intent,
     entities |-> entities, start |-> range[1], end |-> range[2]]

\* one call of core.executor.Executor.execute
Execute(intent, entities, range) ==
    LET done == execute(df, intent, entities, range[1], range[2])
    IN  /\ ~call.called
        /\ df' = done.df
        /\ call' = Called("core", intent, entities, range)
        /\ exec_out' = done.result
        /\ UNCHANGED <<query, typed, clock, date_out, sess, merchants, ent_out, int_out>>

\* one call of executor.Executor.execute (the /query endpoint)
LegacyExecute(intent, entities, range) ==
    LET done == legacy_execute(df, intent, entities, range[1], range[2])
    IN  /\ ~call.called
        /\ df' = done.df
        /\ call' = Called("legacy", intent, entities, range)
        /\ exec_out' = done.result
        /\ UNCHANGED <<query, typed, clock, date_out, sess, merchants, ent_out, int_out>>

\* a caller of the core executor (dashboard, test scripts) makes a call
CoreCall ==
    /\ ~call.called
    /\ \E i \in Intents, e \in EntityValues, r \in DateRanges : Execute(i, e, r)

\* the /query endpoint makes a call
ApiCall ==
    /\ ~call.called
    /\ \E i \in Intents, e \in EntityValues, r \in DateRanges :
           LegacyExecute(i, e, r)

\* the caller takes the result; the executor is ready for the next call
Return ==
    /\ call.called
    /\ call' = IdleCall
    /\ exec_out' = IdleCall
    /\ UNCHANGED <<query, typed, clock, date_out, df, sess, merchants, ent_out, int_out>>

NextExec ==
    \/ \E r \in Ledger : Load(r)
    \/ CoreCall
    \/ ApiCall
    \/ Return

SpecExec == InitExec /\ [][NextExec]_vars

\* ------------------------------------------------- ui/app.py, Analyze
\* Every browser session runs the script in its own thread; load_pipeline
\* is cached, so all sessions share the one Executor and its df.
Sessions == {1, 2}

\* the transactions file of a session (uploaded, or the default file)
Uploads ==
    { <<Row(datetime(2025, 1, 10, 0, 0, 0), 100, "food", "zomato")>>,
      <<Row(datetime(2025, 1, 10, 0, 0, 0), 100, "food", "zomato"),
        Row(datetime(2025, 2, 28, 0, 0, 0), 250, "rent", "landlord")>>,
      <<Row(datetime(2024, 12, 15, 0, 0, 0), 40, "transport", "uber")>> }

NoEntities == [category |-> None, merchant |-> None, amount |-> None]

\* what a session's query was understood as
Requests ==
    [intent : {"total_spend", "top_category", "compare_periods"},
     entities : {NoEntities},
     range : { <<None, None>>,
               <<Some(datetime(2025, 1, 1, 0, 0, 0)),
                 Some(datetime(2025, 1, 31, 23, 59, 59))>> }]

IdleRequest == [intent |-> "", entities |-> NoEntities, range |-> <<None, None>>]

InitApp ==
    /\ query = <<>>
    /\ typed = 0
    /\ clock = 1
    /\ date_out = IdleDate
    /\ df \in Uploads
    /\ call = IdleCall
    /\ exec_out = IdleCall
    /\ sess \in [Sessions -> [pc : {"idle"}, data : Uploads, req : {IdleRequest},
                              work : {<<>>}, result : {IntResult(0)}]]
    /\ merchants = <<>>
    /\ ent_out = IdleCall
    /\ int_out = IdleCall

\* lines 135-137: the query is classified, entities and dates are extracted
Analyze(s, req) ==
    /\ sess[s].pc = "idle"
    /\ sess' = [sess EXCEPT ![s].pc = "analyzed", ![s].req = req]
    /\ UNCHANGED <<query, typed, clock, date_out, df, call, exec_out, merchants, ent_out, int_out>>

\* line 139: executor.df = transactions_df.copy()
Assign(s) ==
    /\ sess[s].pc = "analyzed"
    /\ df' = sess[s].data
    /\ sess' = [sess EXCEPT ![s].pc = "assigned"]
    /\ UNCHANGED <<query, typed, clock, date_out, call, exec_out, merchants, ent_out, int_out>>

\* executor.py line 22, entered from line 141: df = self.df.copy()
Copy(s) ==
    /\ sess[s].pc = "assigned"
    /\ sess' = [sess EXCEPT ![s].pc = "copied", ![s].work = df]
    /\ UNCHANGED <<query, typed, clock, date_out, df, call, exec_out, merchants, ent_out, int_out>>

\* executor.py lines 24-59: filters on the copy, aggregation, return
Dispatch(s) ==
    /\ sess[s].pc = "copied"
    /\ sess' = [sess EXCEPT
                   ![s].pc = "done",
                   ![s].result = dispatch(sess[s].work, df, sess[s].req.intent,
                                          sess[s].req.entities,
                                          sess[s].req.range[1], sess[s].req.range[2])]
    /\ UNCHANGED <<query, typed, clock, date_out, df, call, exec_out, merchants, ent_out, int_out>>

\* the result is shown; the session is ready for its next query
Rerun(s) ==
    /\ sess[s].pc = "done"
    /\ sess' = [sess EXCEPT ![s].pc = "idle", ![s].req = IdleRequest,
                            ![s].work = <<>>, ![s].result = IntResult(0)]
    /\ UNCHANGED <<query, typed, clock, date_out, df, call, exec_out, merchants, ent_out, int_out>>

NextApp ==
    \/ \E s \in Sessions, req \in Requests : Analyze(s, req)
    \/ \E s \in Sessions : Assign(s)
    \/ \E s \in Sessions : Copy(s)
    \/ \E s \in Sessions : Dispatch(s)
    \/ \E s \in Sessions : Rerun(s)

SpecApp == InitApp /\ [][NextApp]_vars

\* ---------------------------------------------- core/entity_extractor.py
\* (entity_extractor.py, used by api.py, has the same tables and the same
\* extract.)  A text is the sequence of the characters of a query, one
\* string per character.
UpperCase ==
    <<"A", "B", "C", "D", "E", "F", "G", "H", "I", "J", "K", "L", "M",
      "N", "O", "P", "Q", "R", "S", "T", "U", "V", "W", "X", "Y", "Z">>
LowerCase ==
    <<"a", "b", "c", "d", "e", "f", "g", "h", "i", "j", "k", "l", "m",
      "n", "o", "p", "q", "r", "s", "t", "u", "v", "w", "x", "y", "z">>
DigitChars == <<"0", "1", "2", "3", "4", "5", "6", "7", "8", "9">>

IsLetter(c) == \E i \in 1..26 : c = UpperCase[i] \/ c = LowerCase[i]
IsDigitChar(c) == \E i \in 1..10 : c = DigitChars[i]
DigitValue(c) == (CHOOSE i \in 1..10 : c = DigitChars[i]) - 1

\* the letters of a word, one string per character
Letters(s) ==
    CASE s = "rent" -> <<"r", "e", "n", "t">>
      [] s = "rental" -> <<"r", "e", "n", "t", "a", "l">>
      [] s = "landlord" -> <<"l", "a", "n", "d", "l", "o", "r", "d">>
      [] s = "coffee" -> <<"c", "o", "f", "f", "e", "e">>
      [] s = "cafe" -> <<"c", "a", "f", "e">>
      [] s = "cafes" -> <<"c", "a", "f", "e", "s">>
      [] s = "grocery" -> <<"g", "r", "o", "c", "e", "r", "y">>
      [] s = "groceries" -> <<"g", "r", "o", "c", "e", "r", "i", "e", "s">>
      [] s = "bigbasket" -> <<"b", "i", "g", "b", "a", "s", "k", "e", "t">>
      [] s = "instamart" -> <<"i", "n", "s", "t", "a", "m", "a", "r", "t">>
      [] s = "food" -> <<"f", "o", "o", "d">>
      [] s = "meal" -> <<"m", "e", "a", "l">>
      [] s = "lunch" -> <<"l", "u", "n", "c", "h">>
      [] s = "dinner" -> <<"d", "i", "n", "n", "e", "r">>
      [] s = "swiggy" -> <<"s", "w", "i", "g", "g", "y">>
      [] s = "zomato" -> <<"z", "o", "m", "a", "t", "o">>
      [] s = "transport" -> <<"t", "r", "a", "n", "s", "p", "o", "r", "t">>
      [] s = "travel" -> <<"t", "r", "a", "v", "e", "l">>
      [] s = "uber" -> <<"u", "b", "e", "r">>
      [] s = "ola" -> <<"o", "l", "a">>
      [] s = "cab" -> <<"c", "a", "b">>
      [] s = "utilities" -> <<"u", "t", "i", "l", "i", "t", "i", "e", "s">>
      [] s = "bill" -> <<"b", "i", "l", "l">>
      [] s = "electricity" -> <<"e", "l", "e", "c", "t", "r", "i", "c", "i", "t", "y">>
      [] s = "water" -> <<"w", "a", "t", "e", "r">>
      [] s = "internet" -> <<"i", "n", "t", "e", "r", "n", "e", "t">>
      [] s = "subscription" -> <<"s", "u", "b", "s", "c", "r", "i", "p", "t", "i", "o", "n">>
      [] s = "subscriptions" -> <<"s", "u", "b", "s", "c", "r", "i", "p", "t", "i", "o", "n", "s">>
      [] s = "netflix" -> <<"n", "e", "t", "f", "l", "i", "x">>
      [] s = "spotify" -> <<"s", "p", "o", "t", "i", "f", "y">>
      [] s = "entertainment" -> <<"e", "n", "t", "e", "r", "t", "a", "i", "n", "m", "e", "n", "t">>
      [] s = "movie" -> <<"m", "o", "v", "i", "e">>
      [] s = "concert" -> <<"c", "o", "n", "c", "e", "r", "t">>
      [] s = "gift" -> <<"g", "i", "f", "t">>
      [] s = "gifts" -> <<"g", "i", "f", "t", "s">>
      [] s = "shopping" -> <<"s", "h", "o", "p", "p", "i", "n", "g">>
      [] s = "purchase" -> <<"p", "u", "r", "c", "h", "a", "s", "e">>
      [] s = "amazon" -> <<"a", "m", "a", "z", "o", "n">>
      [] s = "flipkart" -> <<"f", "l", "i", "p", "k", "a", "r", "t">>
      [] s = "starbucks" -> <<"s", "t", "a", "r", "b", "u", "c", "k", "s">>
      [] s = "ccd" -> <<"c", "c", "d">>
      [] s = "dominos" -> <<"d", "o", "m", "i", "n", "o", "s">>
      [] s = "myntra" -> <<"m", "y", "n", "t", "r", "a">>
      [] s = "bookmyshow" -> <<"b", "o", "o", "k", "m", "y", "s", "h", "o", "w">>
      [] s = "makemytrip" -> <<"m", "a", "k", "e", "m", "y", "t", "r", "i", "p">>
      [] s = "dmart" -> <<"d", "m", "a", "r", "t">>
      [] s = "starbuck" -> <<"s", "t", "a", "r", "b", "u", "c", "k">>
      [] s = "flipkar" -> <<"f", "l", "i", "p", "k", "a", "r">>
      [] s = "zomat" -> <<"z", "o", "m", "a", "t">>
      [] s = "amazing" -> <<"a", "m", "a", "z", "i", "n", "g">>
      [] s = "show" -> <<"s", "h", "o", "w">>
      [] s = "above" -> <<"a", "b", "o", "v", "e">>
      [] s = "over" -> <<"o", "v", "e", "r">>
      [] s = "greater" -> <<"g", "r", "e", "a", "t", "e", "r">>
      [] s = "than" -> <<"t", "h", "a", "n">>
      [] s = "Starbucks" -> <<"S", "t", "a", "r", "b", "u", "c", "k", "s">>
      [] s = "Uber" -> <<"U", "b", "e", "r">>
      [] s = "what" -> <<"w", "h", "a", "t">>
      [] s = "is" -> <<"i", "s">>
      [] s = "my" -> <<"m", "y">>
      [] s = "biggest" -> <<"b", "i", "g", "g", "e", "s", "t">>
      [] s = "expense" -> <<"e", "x", "p", "e", "n", "s", "e">>
      [] s = "category" -> <<"c", "a", "t", "e", "g", "o", "r", "y">>
      [] s = "how" -> <<"h", "o", "w">>
      [] s = "much" -> <<"m", "u", "c", "h">>
      [] s = "did" -> <<"d", "i", "d">>
      [] s = "i" -> <<"i">>
      [] s = "spend" -> <<"s", "p", "e", "n", "d">>
      [] s = "on" -> <<"o", "n">>
      [] s = "in" -> <<"i", "n">>
      [] s = "february" -> <<"f", "e", "b", "r", "u", "a", "r", "y">>
      [] s = "transactions" -> <<"t", "r", "a", "n", "s", "a", "c", "t", "i", "o", "n", "s">>
      [] s = "march" -> <<"m", "a", "r", "c", "h">>
      [] s = "compare" -> <<"c", "o", "m", "p", "a", "r", "e">>
      [] s = "spending" -> <<"s", "p", "e", "n", "d", "i", "n", "g">>
      [] s = "january" -> <<"j", "a", "n", "u", "a", "r", "y">>
      [] s = "and" -> <<"a", "n", "d">>
      [] s = "list" -> <<"l", "i", "s", "t">>
      [] s = "List" -> <<"L", "i", "s", "t">>
      [] s = "all" -> <<"a", "l", "l">>
      [] s = "expenses" -> <<"e", "x", "p", "e", "n", "s", "e", "s">>

\* the characters of one word of a query
WordChars(t) ==
    IF IsAlpha(t) THEN Letters(t.w)
    ELSE [i \in 1..Len(t.d) |-> DigitChars[t.d[i] + 1]]

RECURSIVE Text(_)
\* the query string: its words with one blank between them
Text(q) ==
    IF q = <<>> THEN <<>>
    ELSE IF Len(q) = 1 THEN WordChars(q[1])
    ELSE WordChars(q[1]) \o <<" ">> \o Text(Tail(q))

\* str.lower()
lower(text) ==
    [i \in 1..Len(text) |->
        IF \E k \in 1..26 : text[i] = UpperCase[k]
        THEN LowerCase[CHOOSE k \in 1..26 : text[i] = UpperCase[k]]
        ELSE text[i]]

RECURSIVE findall_letters(_, _, _)
\* re.findall(r"[a-zA-Z]+", q): the maximal runs of letters, left to right
findall_letters(text, run, found) ==
    IF text = <<>>
    THEN (IF run = <<>> THEN found ELSE Append(found, run))
    ELSE IF IsLetter(Head(text))
         THEN findall_letters(Tail(text), Append(run, Head(text)), found)
         ELSE findall_letters(Tail(text), <<>>,
                              IF run = <<>> THEN found ELSE Append(found, run))

\* pattern occurs in text at position i; `pattern in text`
OccursAt(text, i, pattern) ==
    /\ i + Len(pattern) - 1 <= Len(text)
    /\ SubSeq(text, i, i + Len(pattern) - 1) = pattern
Contains(text, pattern) ==
    \E i \in 1..(Len(text) - Len(pattern) + 1) : OccursAt(text, i, pattern)

\* EntityExtractor.CATEGORY_KEYWORDS, in the order of the dict
CATEGORY_KEYWORDS ==
    << [cat |-> "rent", kws |-> <<"rent", "rental", "landlord">>],
       [cat |-> "cafe", kws |-> <<"coffee", "cafe", "cafes">>],
       [cat |-> "grocery", kws |-> <<"grocery", "groceries", "bigbasket", "instamart">>],
       [cat |-> "food", kws |-> <<"food", "meal", "lunch", "dinner", "swiggy", "zomato">>],
       [cat |-> "transport", kws |-> <<"transport", "travel", "uber", "ola", "cab">>],
       [cat |-> "utilities", kws |-> <<"utilities", "bill", "electricity", "water", "internet">>],
       [cat |-> "subscriptions", kws |-> <<"subscription", "subscriptions", "netflix", "spotify">>],
       [cat |-> "entertainment", kws |-> <<"entertainment", "movie", "concert">>],
       [cat |-> "gifts", kws |-> <<"gift", "gifts">>],
       [cat |-> "shopping", kws |-> <<"shopping", "purchase", "amazon", "flipkart">>] >>

\* EntityExtractor.MERCHANT_CATEGORY_MAP
MERCHANT_CATEGORY_MAP ==
    << [merchant |-> "starbucks", cat |-> "cafe"],
       [merchant |-> "ccd", cat |-> "cafe"],
       [merchant |-> "swiggy", cat |-> "food"],
       [merchant |-> "zomato", cat |-> "food"],
       [merchant |-> "dominos", cat |-> "food"],
       [merchant |-> "uber", cat |-> "transport"],
       [merchant |-> "ola", cat |-> "transport"],
       [merchant |-> "amazon", cat |-> "shopping"],
       [merchant |-> "flipkart", cat |-> "shopping"],
       [merchant |-> "myntra", cat |-> "shopping"],
       [merchant |-> "bigbasket", cat |-> "grocery"],
       [merchant |-> "instamart", cat |-> "grocery"],
       [merchant |-> "netflix", cat |-> "subscriptions"],
       [merchant |-> "spotify", cat |-> "subscriptions"],
       [merchant |-> "bookmyshow", cat |-> "entertainment"],
       [merchant |-> "makemytrip", cat |-> "travel"] >>

\* the loop of lines 50-53 without its break: the last category wins
keyword_category_last(q) ==
    LET hit(i) ==
            \E k \in 1..Len(CATEGORY_KEYWORDS[i].kws) :
                Contains(q, Letters(CATEGORY_KEYWORDS[i].kws[k]))
        hits == {i \in 1..Len(CATEGORY_KEYWORDS) : hit(i)}
    IN  IF hits = {} THEN None
        ELSE Some(CATEGORY_KEYWORDS[CHOOSE i \in hits : \A j \in hits : j <= i].cat)

\* lines 50-53: the first category, in dict order, with a keyword in q
keyword_category(q) ==
    LET hit(i) ==
            \E k \in 1..Len(CATEGORY_KEYWORDS[i].kws) :
                Contains(q, Letters(CATEGORY_KEYWORDS[i].kws[k]))
        hits == {i \in 1..Len(CATEGORY_KEYWORDS) : hit(i)}
    IN  IF hits = {} THEN None ELSE Some(CATEGORY_KEYWORDS[Least(hits)].cat)

\* lines 55-58: the first merchant of the list that occurs in q
exact_merchant(q, names) ==
    LET hits == {i \in 1..Len(names) : Contains(q, Letters(names[i]))}
    IN  IF hits = {} THEN None ELSE Some(names[Least(hits)])

Max(a, b) == IF a >= b THEN a ELSE b

RECURSIVE lcs_row(_, _, _, _)
\* one row of the longest-common-subsequence table: above is the row of the
\* prefix without c, row the part of the new row built so far
lcs_row(above, c, s2, row) ==
    IF Len(row) = Len(s2) + 1 THEN row
    ELSE LET j == Len(row)
         IN  lcs_row(above, c, s2,
                     Append(row, IF c = s2[j] THEN above[j] + 1
                                 ELSE Max(above[j + 1], row[j])))

RECURSIVE lcs_rows(_, _, _)
lcs_rows(s1, s2, above) ==
    IF s1 = <<>> THEN above[Len(s2) + 1]
    ELSE lcs_rows(Tail(s1), s2, lcs_row(above, Head(s1), s2, <<0>>))

\* length of a longest common subsequence
lcs(s1, s2) == lcs_rows(s1, s2, [j \in 1..(Len(s2) + 1) |-> 0])

\* rapidfuzz.fuzz.ratio: 100 * 2 * lcs / (len(s1) + len(s2)), kept as the
\* fraction num / den so that scores compare exactly
fuzz_ratio(s1, s2) ==
    IF Len(s1) + Len(s2) = 0 THEN [num |-> 100, den |-> 1]
    ELSE [num |-> 200 * lcs(s1, s2), den |-> Len(s1) + Len(s2)]
ScoreGE(x, y) == x.num * y.den >= y.num * x.den
Score(n) == [num |-> n, den |-> 1]

\* process.extractOne(token, choices, scorer=fuzz.ratio) or (None, 0, None):
\* the first choice with the greatest score
extractOne(token, choices) ==
    IF choices = <<>> THEN [match |-> None, score |-> Score(0)]
    ELSE LET scores == [i \in 1..Len(choices) |->
                           fuzz_ratio(token, Letters(choices[i]))]
             best == Least({i \in 1..Len(choices) :
                        \A j \in 1..Len(choices) : ScoreGE(scores[i], scores[j])})
         IN  [match |-> Some(choices[best]), score |-> scores[best]]

\* lines 61-71 without the length test of line 62
fuzzy_merchant_any_length(tokens, names) ==
    LET best == [i \in 1..Len(tokens) |-> extractOne(tokens[i], names)]
        hits == {i \in 1..Len(tokens) : ScoreGE(best[i].score, Score(88))}
    IN  IF hits = {} THEN None ELSE best[Least(hits)].match

\* lines 61-71: the match of the first token of six letters or more whose
\* best score reaches 88
fuzzy_merchant(tokens, names) ==
    LET best == [i \in {k \in 1..Len(tokens) : Len(tokens[k]) >= 6} |->
                    extractOne(tokens[i], names)]
        hits == {i \in DOMAIN best : ScoreGE(best[i].score, Score(88))}
    IN  IF hits = {} THEN None ELSE best[Least(hits)].match

\* MERCHANT_CATEGORY_MAP.get(merchant)
merchant_category(merchant) ==
    LET at == {i \in 1..Len(MERCHANT_CATEGORY_MAP) :
                  MERCHANT_CATEGORY_MAP[i].merchant = merchant}
    IN  IF at = {} THEN None ELSE Some(MERCHANT_CATEGORY_MAP[Least(at)].cat)

\* the alternatives of r"(above|over|greater than|>=)\s*(\d+)"
AmountWords ==
    << Letters("above"), Letters("over"),
       Letters("greater") \o <<" ">> \o Letters("than"), <<">", "=">> >>

RECURSIVE skip_blanks(_, _)
\* \s*: the position after the blanks that start at j
skip_blanks(text, j) ==
    IF j <= Len(text) /\ text[j] = " " THEN skip_blanks(text, j + 1) ELSE j

RECURSIVE digits_at(_, _)
\* \d+: the digits that start at j
digits_at(text, j) ==
    IF j <= Len(text) /\ IsDigitChar(text[j])
    THEN <<DigitValue(text[j])>> \o digits_at(text, j + 1)
    ELSE <<>>

\* group 2 of the pattern tried at position i, <<>> when it does not match
amount_group(text, i) ==
    LET alts == {a \in 1..Len(AmountWords) : OccursAt(text, i, AmountWords[a])}
    IN  IF alts = {} THEN <<>>
        ELSE digits_at(text, skip_blanks(text, i + Len(AmountWords[Least(alts)])))

\* lines 76-78: re.search takes the leftmost match
amount_of(q) ==
    LET at == {i \in 1..Len(q) : amount_group(q, i) # <<>>}
    IN  IF at = {} THEN None ELSE Some(int(amount_group(q, Least(at))))

\* extract letting the merchant's category replace the keyword category
extract_merchant_overrides(text, names) ==
    LET q == lower(Text(text))
        tokens == findall_letters(q, <<>>, <<>>)
        category == keyword_category(q)
        exact == exact_merchant(q, names)
        merchant == IF exact # None THEN exact ELSE fuzzy_merchant(tokens, names)
    IN  [category |-> IF merchant # None THEN merchant_category(Val(merchant))
                      ELSE category,
         merchant |-> merchant,
         amount |-> amount_of(q)]

\* extract trying the fuzzy match before the exact one
extract_fuzzy_first(text, names) ==
    LET q == lower(Text(text))
        tokens == findall_letters(q, <<>>, <<>>)
        category == keyword_category(q)
        fuzzy == fuzzy_merchant(tokens, names)
        merchant == IF fuzzy # None THEN fuzzy ELSE exact_merchant(q, names)
    IN  [category |-> IF merchant # None /\ category = None
                      THEN merchant_category(Val(merchant))
                      ELSE category,
         merchant |-> merchant,
         amount |-> amount_of(q)]

\* EntityExtractor.extract
extract(text, names) ==
    LET q == lower(Text(text))
        tokens == findall_letters(q, <<>>, <<>>)
        category == keyword_category(q)
        exact == exact_merchant(q, names)
        merchant == IF exact # None THEN exact ELSE fuzzy_merchant(tokens, names)
    IN  [category |-> IF merchant # None /\ category = None
                      THEN merchant_category(Val(merchant))
                      ELSE category,
         merchant |-> merchant,
         amount |-> amount_of(q)]

\* ------------------------------------------------ the extractor's inputs
\* what the user types: category words, merchant names as the file spells
\* them, capitalised, misspelt by one letter, a five-letter misspelling, a
\* word too far from any name, and amount thresholds
Utterances ==
    { <<W("transport")>>, <<W("swiggy")>>, <<W("rent")>>, <<W("show")>>,
      <<W("makemytrip")>>, <<W("Starbucks")>>, <<W("uber")>>, <<W("dmart")>>,
      <<W("starbuck")>>, <<W("flipkar")>>, <<W("zomat")>>, <<W("amazing")>>,
      <<W("above"), N(<<5, 0, 0>>)>>, <<W("over"), N(<<0>>)>> }

\* the contents of data/merchants.txt, stripped and lower-cased: a list, the
\* same names in the opposite order, and an empty file
MerchantFiles ==
    { <<"starbucks", "uber", "flipkart", "zomato", "amazon", "makemytrip", "dmart">>,
      <<"dmart", "makemytrip", "amazon", "zomato", "flipkart", "uber", "starbucks">>,
      <<>> }

\* after EntityExtractor.__init__ (lines 38-40)
InitExtract ==
    /\ query = <<>>
    /\ typed = 0
    /\ clock = 1
    /\ date_out = IdleDate
    /\ df = <<>>
    /\ call = IdleCall
    /\ exec_out = IdleCall
    /\ sess = <<>>
    /\ merchants \in MerchantFiles
    /\ ent_out = IdleCall
    /\ int_out = IdleCall

\* extractor.extract(query)
Extract ==
    /\ ~ent_out.called
    /\ ent_out' = [called |-> TRUE, q |-> query, out |-> extract(query, merchants)]
    /\ UNCHANGED <<query, typed, clock, date_out, df, call, exec_out, sess, merchants, int_out>>

\* the query box is emptied for the next query
Forget ==
    /\ ent_out.called
    /\ query' = <<>>
    /\ typed' = 0
    /\ ent_out' = IdleCall
    /\ UNCHANGED <<clock, date_out, df, call, exec_out, sess, merchants, int_out>>

NextExtract ==
    \/ \E p \in Utterances : Type(p)
    \/ Extract
    \/ Forget

SpecExtract == InitExtract /\ [][NextExtract]_vars

\* ------------------------------------------- scripts/run_query_tests.py
\* TEST_QUERIES, without the question marks; the words are written in lower
\* case except the merchant names, which no date rule reads
TEST_QUERIES ==
    << <<W("what"), W("is"), W("my"), W("biggest"), W("expense"), W("category")>>,
       <<W("how"), W("much"), W("did"), W("i"), W("spend"), W("on"), W("travel")>>,
       <<W("how"), W("much"), W("did"), W("i"), W("spend"), W("on"), W("food"),
         W("in"), W("february"), N(<<2, 0, 2, 5>>)>>,
       <<W("show"), W("my"), W("Uber"), W("transactions"), W("in"), W("march"),
         N(<<2, 0, 2, 5>>)>>,
       <<W("compare"), W("my"), W("spending"), W("in"), W("january"), W("and"),
         W("february"), N(<<2, 0, 2, 5>>)>>,
       <<W("show"), W("my"), W("Starbucks"), W("transactions")>> >>

\* after lines 27-31: the extractor has read its merchants file; the rows of
\* the transactions file are read by Load
InitScript ==
    /\ query = <<>>
    /\ typed = 0
    /\ clock = 1
    /\ date_out = IdleDate
    /\ df = <<>>
    /\ call = IdleCall
    /\ exec_out = IdleCall
    /\ sess = <<>>
    /\ merchants \in MerchantFiles
    /\ ent_out = IdleCall
    /\ int_out = IdleCall

\* lines 46-55, one turn of the loop over the k-th query: it is classified
\* (the matcher's answer is any template label), its entities and its date
\* range are extracted and the executor is called; an exception of parse
\* ends the turn before the call
RunQuery(k) ==
    LET q == TEST_QUERIES[k]
        now == ClockValues[clock]
    IN  /\ query' = q
        /\ ent_out' = [called |-> TRUE, q |-> q, out |-> extract(q, merchants)]
        /\ date_out' = [called |-> TRUE, q |-> q, now |-> now, out |-> parse(q, now)]
        /\ IF date_out'.out.raised
           THEN UNCHANGED <<df, call, exec_out>>
           ELSE \E intent \in Intents :
                    LET entities == ent_out'.out
                        start_date == date_out'.out.start
                        end_date == date_out'.out.end
                        done == execute(df, intent, entities, start_date, end_date)
                    IN  /\ df' = done.df
                        /\ call' = Called("core", intent, entities,
                                          <<start_date, end_date>>)
                        /\ exec_out' = done.result
        /\ UNCHANGED <<typed, clock, sess, merchants, int_out>>

\* the loop of line 42 takes a query
Script ==
    /\ ~ent_out.called
    /\ \E k \in 1..Len(TEST_QUERIES) : RunQuery(k)

\* the turn is over: its locals are dropped
EndTurn ==
    /\ ent_out.called
    /\ query' = <<>>
    /\ ent_out' = IdleCall
    /\ date_out' = IdleDate
    /\ call' = IdleCall
    /\ exec_out' = IdleCall
    /\ UNCHANGED <<typed, clock, df, sess, merchants, int_out>>

NextScript ==
    \/ \E r \in Ledger : Load(r)
    \/ Tick
    \/ Script
    \/ EndTurn

SpecScript == InitScript /\ [][NextScript]_vars

\* ------------------------------------------------ core/intent_matcher.py
\* The templates as intent_matcher.py spells them out (core/intent_matcher.py
\* loads the same shape from data/intent_templates.json).  A similarity is
\* an integer number of ten-thousandths, a score a number of thousandths.
intent_templates ==
    << [intent |-> "total_spend",
        phrases |-> <<"how much did i spend", "total spending", "total expenses",
                      "how much money did i spend">>],
       [intent |-> "list_transactions",
        phrases |-> <<"show my", "show all", "list my", "list all",
                      "show transactions", "show expenses">>],
       [intent |-> "top_category",
        phrases |-> <<"biggest expense", "highest spending category",
                      "most spent on">>],
       [intent |-> "compare_periods",
        phrases |-> <<"compare my spending", "compare expenses", "versus", "vs">>],
       [intent |-> "average_spend",
        phrases |-> <<"average spending", "average expense">>] >>

RECURSIVE flatten_intents(_)
\* the loop of lines 17-20: one label per phrase, in the order of the dict
flatten_intents(templates) ==
    IF templates = <<>> THEN <<>>
    ELSE [i \in 1..Len(templates[1].phrases) |-> templates[1].intent]
             \o flatten_intents(Tail(templates))

phrase_to_intent == flatten_intents(intent_templates)

\* np.argmax taking the last of equal maxima
argmax_last(sims) ==
    CHOOSE i \in 1..Len(sims) :
        /\ \A j \in 1..Len(sims) : sims[j] <= sims[i]
        /\ \A j \in (i + 1)..Len(sims) : sims[j] < sims[i]

\* np.argmax: the first index of the greatest value
argmax(sims) ==
    Least({i \in 1..Len(sims) : \A j \in 1..Len(sims) : sims[j] <= sims[i]})

\* round(x, 3), for a similarity that is not half-way between thousandths
round3(x) == (x + 5) \div 10

\* any(w in query_lower for w in ["show", "list"])
has_show_or_list(query_lower) ==
    Contains(query_lower, Letters("show")) \/ Contains(query_lower, Letters("list"))

\* match_intent with the override setting the score to 0.55
match_intent_sets_score(text, sims) ==
    LET query_lower == lower(Text(text))
        best_idx == argmax(sims)
        best_intent == phrase_to_intent[best_idx]
        best_score == sims[best_idx]
        boosted == IF best_intent = "list_transactions" /\ has_show_or_list(query_lower)
                   THEN 5500 ELSE best_score
    IN  [intent |-> best_intent, score |-> round3(boosted)]

\* IntentMatcher.match_intent, given the similarities of the query to the
\* template phrases
match_intent(text, sims) ==
    LET query_lower == lower(Text(text))
        best_idx == argmax(sims)
        best_intent == phrase_to_intent[best_idx]
        best_score == sims[best_idx]
        boosted == IF best_intent = "list_transactions" /\ has_show_or_list(query_lower)
                   THEN Max(best_score, 5500) ELSE best_score
    IN  [intent |-> best_intent, score |-> round3(boosted)]

\* ------------------------------------------------- the matcher's inputs
\* the queries put to the matcher: the test queries and one with "List"
MatcherQueries == TEST_QUERIES \o << <<W("List"), W("all"), W("expenses")>> >>

\* cosine similarities: a floor everywhere and two chosen phrases that stand
\* out from it (or not: a phrase may also lie below the floor, and both
\* chosen phrases may be equal or the same one)
SimFloors == {0 - 2500, 3004}
SimPeaks == {0 - 1200, 4196, 8127}
Similarities(floor, i, v, j, w) ==
    [k \in 1..Len(phrase_to_intent) |->
        IF k = i THEN v ELSE IF k = j THEN w ELSE floor]
SimVectors ==
    {Similarities(floor, i, v, j, w) :
        floor \in SimFloors, i \in 1..Len(phrase_to_intent), v \in SimPeaks,
        j \in 1..Len(phrase_to_intent), w \in SimPeaks}

\* after IntentMatcher.__init__
InitMatch ==
    /\ query = <<>>
    /\ typed = 0
    /\ clock = 1
    /\ date_out = IdleDate
    /\ df = <<>>
    /\ call = IdleCall
    /\ exec_out = IdleCall
    /\ sess = <<>>
    /\ merchants = <<>>
    /\ ent_out = IdleCall
    /\ int_out = IdleCall

\* matcher.match_intent(query) for the k-th query, the embedding model
\* giving the similarities sims
MatchIntent(k, sims) ==
    /\ query' = MatcherQueries[k]
    /\ int_out' = [called |-> TRUE, q |-> MatcherQueries[k], sims |-> sims,
                   out |-> match_intent(MatcherQueries[k], sims)]
    /\ UNCHANGED <<typed, clock, date_out, df, call, exec_out, sess, merchants, ent_out>>

\* a caller puts a query to the matcher
Match ==
    /\ ~int_out.called
    /\ \E k \in 1..Len(MatcherQueries), sims \in SimVectors : MatchIntent(k, sims)

\* the caller has taken the result
Matched ==
    /\ int_out.called
    /\ query' = <<>>
    /\ int_out' = IdleCall
    /\ UNCHANGED <<typed, clock, date_out, df, call, exec_out, sess, merchants, ent_out>>

NextMatch ==
    \/ Match
    \/ Matched

SpecMatch == InitMatch /\ [][NextMatch]_vars

\* ------------------------------------------------------ test_pipeline.py
\* load_test_queries: the lines of data/test_queries.txt, an input
load_test_queries == MatcherQueries

\* the similarities the embedding model gives in a run of the pipeline: one
\* template phrase stands out
PipelineSims ==
    {Similarities(3004, i, 8127, i, 8127) : i \in 1..Len(phrase_to_intent)}

\* after lines 40-43: matcher, extractor, parser and executor are built
InitPipeline ==
    /\ query = <<>>
    /\ typed = 0
    /\ clock = 1
    /\ date_out = IdleDate
    /\ df = <<>>
    /\ call = IdleCall
    /\ exec_out = IdleCall
    /\ sess = <<>>
    /\ merchants \in MerchantFiles
    /\ ent_out = IdleCall
    /\ int_out = IdleCall

\* run_query for the k-th query: the matcher's record is read field by
\* field (lines 18, 22, 23), a field it lacks raising KeyError and ending
\* the run; then the entities, the date range and the execution
run_query(k, sims) ==
    LET q == load_test_queries[k]
        now == ClockValues[clock]
        intent_result == match_intent(q, sims)
    IN  /\ query' = q
        /\ int_out' = [called |-> TRUE, q |-> q, sims |-> sims, out |-> intent_result]
        /\ IF {"intent", "score", "margin"} \subseteq DOMAIN intent_result
           THEN /\ ent_out' = [called |-> TRUE, q |-> q, out |-> extract(q, merchants)]
                /\ date_out' = [called |-> TRUE, q |-> q, now |-> now,
                                out |-> parse(q, now)]
                /\ IF date_out'.out.raised
                   THEN UNCHANGED <<df, call, exec_out>>
                   ELSE LET intent == intent_result.intent
                            entities == ent_out'.out
                            start_date == date_out'.out.start
                            end_date == date_out'.out.end
                            done == execute(df, intent, entities, start_date, end_date)
                        IN  /\ df' = done.df
                            /\ call' = Called("core", intent, entities,
                                              <<start_date, end_date>>)
                            /\ exec_out' = done.result
           ELSE UNCHANGED <<ent_out, date_out, df, call, exec_out>>
        /\ UNCHANGED <<typed, clock, sess, merchants>>

\* the loop of lines 47-48 takes a query
Pipeline ==
    /\ ~int_out.called
    /\ \E k \in 1..Len(load_test_queries), sims \in PipelineSims : run_query(k, sims)

\* the run is over: its locals are dropped
EndRun ==
    /\ int_out.called
    /\ query' = <<>>
    /\ int_out' = IdleCall
    /\ ent_out' = IdleCall
    /\ date_out' = IdleDate
    /\ call' = IdleCall
    /\ exec_out' = IdleCall
    /\ UNCHANGED <<typed, clock, df, sess, merchants>>

NextPipeline ==
    \/ \E r \in Ledger : Load(r)
    \/ Tick
    \/ Pipeline
    \/ EndRun

SpecPipeline == InitPipeline /\ [][NextPipeline]_vars

\* ================================================================ claims
\* the call on record, and the table it was made on
IsCall(intent) == call.called /\ call.intent = intent

\* C1: every record of a list_transactions result has amount >= the amount
\* threshold of the entities, for every threshold the extractor can produce
\* (0 included) and every table.
C1_ListRespectsThreshold ==
    (IsCall("list_transactions") /\ call.entities.amount # None
        /\ exec_out.kind = "list")
    => \A i \in 1..Len(exec_out.value) :
           exec_out.value[i].amount >= Val(call.entities.amount)

\* C2: whenever parse returns two instants, start <= end.
C2_StartNotAfterEnd ==
    (date_out.called /\ date_out.out.start # None /\ date_out.out.end # None)
    => Val(date_out.out.start) <= Val(date_out.out.end)

\* the calendar months from the month of start to the month of end
SpannedMonths(start, end) ==
    LET first == YearOf(start) * 12 + MonthOf(start)
        last == YearOf(end) * 12 + MonthOf(end)
    IN  {ym \in (2022..2027) \X (1..12) :
            first <= ym[1] * 12 + ym[2] /\ ym[1] * 12 + ym[2] <= last}

\* C3: compare_periods over a resolved range returns exactly one entry per
\* calendar month the range spans, keyed by that month.
C3_OneEntryPerSpannedMonth ==
    (IsCall("compare_periods") /\ call.start # None /\ call.end # None)
    => /\ exec_out.kind = "dict"
       /\ DOMAIN exec_out.value = SpannedMonths(Val(call.start), Val(call.end))

\* C4: the result of top_category is None exactly when the table is empty,
\* and otherwise a category of the table whose amount-sum over the whole
\* table is the greatest, whatever the entities and the date range are.
C4_TopCategoryIsGlobal ==
    IsCall("top_category")
    => /\ exec_out.kind = "label"
       /\ (exec_out.value = None) <=> (call.df = <<>>)
       /\ exec_out.value # None =>
            /\ Val(exec_out.value) \in Categories(call.df)
            /\ \A c \in Categories(call.df) :
                   CategorySum(call.df, c) <= CategorySum(call.df, Val(exec_out.value))

\* C5: a call of execute, whatever it returns or raises, leaves the base
\* table with the same rows in the same order.
C5_BaseTableUnchanged == [][(~call.called /\ call'.called) => df' = df]_vars

\* C5 witness: a call whose filters removed rows has returned, and the base
\* table still holds the two rows it was made on
C5_Witness ==
    /\ IsCall("list_transactions")
    /\ Len(call.df) = 2
    /\ Len(exec_out.value) < Len(call.df)
    /\ df = call.df

\* C6: under every interleaving of the sessions' steps, a finished query has
\* the result of running it alone against its own session's table.
C6_ResultAsIfAlone ==
    \A s \in Sessions :
        sess[s].pc = "done"
        => sess[s].result = execute(sess[s].data, sess[s].req.intent,
                                    sess[s].req.entities, sess[s].req.range[1],
                                    sess[s].req.range[2]).result

\* the rules of the cascade whose pattern the query matches (a "between"
\* counts when both operands parse), and the range each rule gives
RuleMatches(k, q, now) ==
    CASE k = 1 -> BetweenParses(q, now)
      [] k = 2 -> HasWord(q, "yesterday")
      [] k = 3 -> HasPair(q, "last", "week")
      [] k = 4 -> LastDaysAt(q) # {}
      [] k = 5 -> SinceAt(q) # {}
      [] k = 6 -> OnAt(q) # {}
      [] k = 7 -> HasPair(q, "last", "month")
      [] k = 8 -> HasPair(q, "this", "month")
      [] k = 9 -> HasPair(q, "this", "year")
      [] k = 10 -> HasPair(q, "last", "year")
      [] k = 11 -> InAt(q) # {}
      [] k = 12 -> YearAt(q) # {}
      [] k = 13 -> dateparser_parse(q, now) # None
RuleRange(k, q, now) ==
    CASE k = 1 -> rule_between(q, now)
      [] k = 2 -> rule_yesterday(now)
      [] k = 3 -> rule_last_week(now)
      [] k = 4 -> rule_last_days(q, now)
      [] k = 5 -> rule_since(q, now)
      [] k = 6 -> rule_specific_date(q)
      [] k = 7 -> rule_last_month(now)
      [] k = 8 -> rule_this_month(now)
      [] k = 9 -> rule_this_year(now)
      [] k = 10 -> rule_last_year(now)
      [] k = 11 -> rule_in_month(q, now)
      [] k = 12 -> rule_year(q)
      [] k = 13 -> rule_fallback(q, now)
MatchingRules(q, now) == {k \in 1..13 : RuleMatches(k, q, now)}

\* C7: for a query matching more than one rule, parse returns the range of
\* the earliest matching rule.
C7_FirstMatchingRuleWins ==
    (date_out.called /\ Cardinality(MatchingRules(date_out.q, date_out.now)) > 1)
    => /\ ~date_out.out.raised
       /\ date_out.out = RuleRange(Least(MatchingRules(date_out.q, date_out.now)),
                                   date_out.q, date_out.now)

\* C8: parse never raises: its outcome is always a pair.
C8_ParseNeverRaises == date_out.called => ~date_out.out.raised

\* C9: execute with an intent outside the five known intents ends in an
\* error carrying that intent, whatever the entities, range and table.
C9_UnknownIntentRaises ==
    (call.called /\ call.intent \notin KnownIntents)
    => exec_out = ErrorResult(call.intent)

\* C9 witness: an unknown intent was raised on a table whose working set
\* for the call is empty
C9_Witness ==
    /\ call.called
    /\ call.intent = "set_budget"
    /\ call.df # <<>>
    /\ call.entities.category = Some("gifts")
    /\ exec_out.kind = "error"

\* the rows that satisfy every constraint which is present (not None)
SatisfiesAll(r, entities, start, end) ==
    /\ (start # None /\ end # None) => (r.date >= Val(start) /\ r.date <= Val(end))
    /\ entities.category # None => r.category = Val(entities.category)
    /\ entities.merchant # None => r.merchant = Val(entities.merchant)
    /\ entities.amount # None => r.amount >= Val(entities.amount)

\* C10: the working set is exactly the rows satisfying every present
\* constraint (seen through list_transactions, which returns it whole).
C10_WorkingSetExact ==
    IsCall("list_transactions")
    => exec_out =
         ListResult(to_records(
             SelectSeq(call.df,
                    LAMBDA r : SatisfiesAll(r, call.entities, call.start, call.end))))

\* the working set of the call on record, as lines 24-39 build it
WorkingSet == filtered(call.df, call.entities, call.start, call.end)

\* what the three aggregations over an empty working set must return
EmptyAnswer ==
    /\ call.intent = "total_spend" => exec_out = IntResult(0)
    /\ call.intent = "average_spend" => exec_out = IntResult(0)
    /\ call.intent = "list_transactions" => exec_out = ListResult(<<>>)

\* C11: over an empty working set total_spend returns exactly 0,
\* average_spend exactly 0 and list_transactions the empty sequence, and a
\* category filter naming a category of no row of the table always leaves
\* the working set empty.
C11_EmptyWorkingSet ==
    call.called =>
        /\ WorkingSet = <<>> => EmptyAnswer
        /\ (call.entities.category # None
               /\ Val(call.entities.category) \notin Categories(call.df))
           => (WorkingSet = <<>> /\ EmptyAnswer)

C11_Witness ==
    /\ IsCall("average_spend")
    /\ Len(call.df) = 2
    /\ call.entities.category = Some("gifts")
    /\ exec_out = IntResult(0)

\* the four fields of a row that a record of the result carries
Record(r) ==
    [date |-> r.date, amount |-> r.amount, category |-> r.category,
     merchant |-> r.merchant]

\* C12: a list_transactions result has one record per working-set row, in
\* the relative order the rows have in the table (an order-preserving
\* subsequence of it), and every record has exactly the fields date,
\* amount, category and merchant.
C12_ListIsOrderedProjection ==
    IsCall("list_transactions") =>
        /\ exec_out.kind = "list"
        /\ Len(exec_out.value) = Len(WorkingSet)
        /\ \A i \in 1..Len(exec_out.value) :
               DOMAIN exec_out.value[i] = {"date", "amount", "category", "merchant"}
        /\ \E f \in [1..Len(exec_out.value) -> 1..Len(call.df)] :
               /\ \A i \in 1..Len(exec_out.value) :
                      /\ exec_out.value[i] = Record(call.df[f[i]])
                      /\ call.df[f[i]] = WorkingSet[i]
               /\ \A i, j \in 1..Len(exec_out.value) : i < j => f[i] < f[j]

C12_Witness ==
    /\ IsCall("list_transactions")
    /\ Len(exec_out.value) = 2
    /\ exec_out.value[1].date > exec_out.value[2].date

\* all rows of one calendar month
MonthSum(table, ym) ==
    SumAmount(SelectSeq(table, LAMBDA r : YearMonth(r.date) = ym))

\* C13: for "Compare my spending in January and February 2025" classified
\* as compare_periods, at any current date, date resolution followed by
\* execution yields a mapping with exactly the keys 2025-01 and 2025-02,
\* each mapped to the sum of the amounts dated in that month of 2025.
C13_JanuaryAndFebruary2025 ==
    (IsCall("compare_periods") /\ query = TEST_QUERIES[5]
        /\ date_out.called /\ date_out.q = query)
    => exec_out =
         DictResult([ym \in {<<2025, 1>>, <<2025, 2>>} |-> MonthSum(call.df, ym)])

\* the sum of the rows of one calendar month that satisfy the category and
\* merchant constraints
MonthTotal(table, ym, entities) ==
    SumAmount(ByMerchant(ByCategory(
        SelectSeq(table, LAMBDA r : YearMonth(r.date) = ym), entities), entities))

\* C14: every entry of a compare_periods result is the sum of all rows of
\* its labelled calendar month, first day to last day, that satisfy the
\* category and merchant constraints, even when the range covers only a
\* part of that month.
C14_FullMonthSums ==
    (IsCall("compare_periods") /\ exec_out.kind = "dict")
    => \A ym \in DOMAIN exec_out.value :
           exec_out.value[ym] = MonthTotal(call.df, ym, call.entities)

\* the range of the call on record is exactly one calendar month
IsFullMonth(start, end) ==
    /\ start # None /\ end # None
    /\ YearMonth(Val(start)) = YearMonth(Val(end))
    /\ Val(start) =
          datetime(YearOf(Val(start)), MonthOf(Val(start)), 1, 0, 0, 0)
    /\ Val(end) =
          datetime(YearOf(Val(start)), MonthOf(Val(start)),
                   monthrange(YearOf(Val(start)), MonthOf(Val(start))), 23, 59, 59)

PrevMonth(ym) == IF ym[2] = 1 THEN <<ym[1] - 1, 12>> ELSE <<ym[1], ym[2] - 1>>

\* C15: for a range that is exactly one full calendar month M the core
\* _compare_periods returns an entry labelled M with M's total and an entry
\* labelled with the month just before M with that month's total, for
\* every M, months longer than their predecessor included.
C15_ThisMonthVsLastMonth ==
    (IsCall("compare_periods") /\ call.impl = "core"
        /\ IsFullMonth(call.start, call.end))
    => LET M == YearMonth(Val(call.start))
       IN  exec_out =
             DictResult([ym \in {M, PrevMonth(M)} |->
                            MonthTotal(call.df, ym, call.entities)])

\* the case-folded text of the query extract was called with
AskedText == lower(Text(ent_out.q))

\* the keywords of the i-th registered category that occur in the text t
KeywordHits(t, i) ==
    {k \in 1..Len(CATEGORY_KEYWORDS[i].kws) :
        Contains(t, Letters(CATEGORY_KEYWORDS[i].kws[k]))}
HitCategories(t) == {i \in 1..Len(CATEGORY_KEYWORDS) : KeywordHits(t, i) # {}}

\* the length of the longest keyword of the category that occurs, or 0
LongestHit(t, i) ==
    LET lens == {Len(Letters(CATEGORY_KEYWORDS[i].kws[k])) : k \in KeywordHits(t, i)}
    IN  IF lens = {} THEN 0 ELSE CHOOSE n \in lens : \A m \in lens : m <= n

\* (exact label match, number of keywords occurring, longest such keyword)
ScoreTuple(t, i) ==
    << IF Contains(t, Letters(CATEGORY_KEYWORDS[i].cat)) THEN 1 ELSE 0,
       Cardinality(KeywordHits(t, i)),
       LongestHit(t, i) >>

LexGreater(a, b) ==
    \/ a[1] > b[1]
    \/ a[1] = b[1] /\ a[2] > b[2]
    \/ a[1] = b[1] /\ a[2] = b[2] /\ a[3] > b[3]

\* the category with the greatest score tuple, the first-registered of
\* equals
ScoredCategory(t) ==
    LET hits == HitCategories(t)
        score == [i \in hits |-> ScoreTuple(t, i)]
    IN  Least({i \in hits : \A j \in hits : ~LexGreater(score[j], score[i])})

\* C16 as stated: category resolution returns the category whose score tuple
\* (exact label match, number of keywords occurring, longest occurring
\* keyword) is lexicographically greatest, ties to the first-registered
\* category, and None when no category has a hit.
C16_GreatestScoreTuple ==
    ent_out.called =>
        LET t == AskedText
            hits == HitCategories(t)
        IN  /\ hits # {}
               => ent_out.out.category = Some(CATEGORY_KEYWORDS[ScoredCategory(t)].cat)
            /\ (hits = {} /\ ent_out.out.merchant = None)
               => ent_out.out.category = None

\* C16 amended: category resolution returns the first-registered category
\* that has a keyword occurring in the case-folded query, whatever the
\* scores of the categories registered after it, and None when no category
\* has a hit (and no merchant supplies one).
C16_FirstRegisteredHit ==
    ent_out.called =>
        LET hits == HitCategories(AskedText)
        IN  /\ hits # {}
               => \E i \in hits :
                      /\ ent_out.out.category = Some(CATEGORY_KEYWORDS[i].cat)
                      /\ \A j \in hits : i <= j
            /\ (hits = {} /\ ent_out.out.merchant = None)
               => ent_out.out.category = None

C16_Witness ==
    /\ ent_out.called
    /\ ent_out.q = <<W("transport"), W("swiggy")>>
    /\ HitCategories(AskedText) = {4, 5}
    /\ LexGreater(ScoreTuple(AskedText, 5), ScoreTuple(AskedText, 4))
    /\ ent_out.out.category = Some("food")

\* the canonical labels: the keys of the category keyword table
CanonicalLabels == {CATEGORY_KEYWORDS[i].cat : i \in 1..Len(CATEGORY_KEYWORDS)}

\* C17: every category extract returns is None or a canonical label (a key
\* of the category keyword table); the alias travel is folded to transport,
\* also when the category is inferred through the merchant map.
C17_CategoryIsCanonical ==
    ent_out.called =>
        \/ ent_out.out.category = None
        \/ Val(ent_out.out.category) \in CanonicalLabels

\* C18: the category inferred from the merchant is used only when keyword
\* matching found none: a keyword category is returned unchanged whatever
\* the merchant, and a merchant outside the merchant map leaves the
\* category None.
C18_MerchantCategoryOnlyAsFallback ==
    ent_out.called =>
        LET hits == HitCategories(AskedText)
            merchant == ent_out.out.merchant
            mapped == {i \in 1..Len(MERCHANT_CATEGORY_MAP) :
                          merchant = Some(MERCHANT_CATEGORY_MAP[i].merchant)}
        IN  /\ hits # {}
               => ent_out.out.category = Some(CATEGORY_KEYWORDS[Least(hits)].cat)
            /\ (hits = {} /\ mapped = {}) => ent_out.out.category = None
            /\ (hits = {} /\ mapped # {})
               => \E i \in mapped :
                      ent_out.out.category = Some(MERCHANT_CATEGORY_MAP[i].cat)

C18_Witness ==
    /\ ent_out.called
    /\ ent_out.q = <<W("rent"), W("Starbucks")>>
    /\ ent_out.out.merchant = Some("starbucks")
    /\ merchant_category("starbucks") = Some("cafe")
    /\ ent_out.out.category = Some("rent")

\* the merchants of the list that occur in the text, by position in the list
ExactHits(t) == {i \in 1..Len(merchants) : Contains(t, Letters(merchants[i]))}

\* C19: when a merchant name of the list is a substring of the case-folded
\* query, extract returns the first such name in list order; fuzzy matches
\* of other words have no influence.
C19_FirstExactMerchant ==
    ent_out.called =>
        LET exact == ExactHits(AskedText)
        IN  exact # {} => ent_out.out.merchant = Some(merchants[Least(exact)])

C19_Witness ==
    /\ ent_out.called
    /\ ent_out.q = <<W("starbuck"), W("uber")>>
    /\ ScoreGE(fuzz_ratio(Letters("starbuck"), Letters("starbucks")), Score(88))
    /\ merchants # <<>>
    /\ ent_out.out.merchant = Some("uber")

\* C20: without an exact match the merchant is a best-scoring name of the
\* list for the first token, in query order, that has six letters or more
\* and whose best score is at least 88; a shorter token never yields a
\* merchant, a best score below 88 is never accepted, and with no such
\* token the merchant is None.
C20_FuzzyMerchant ==
    ent_out.called =>
        LET t == AskedText
            tokens == findall_letters(t, <<>>, <<>>)
            score == [i \in 1..Len(tokens) |->
                         [j \in 1..Len(merchants) |->
                             fuzz_ratio(tokens[i], Letters(merchants[j]))]]
            qualifies(i) ==
                /\ Len(tokens[i]) >= 6
                /\ \E j \in 1..Len(merchants) : ScoreGE(score[i][j], Score(88))
            qualifying == {i \in 1..Len(tokens) : qualifies(i)}
        IN  ExactHits(t) = {} =>
                IF qualifying = {} THEN ent_out.out.merchant = None
                ELSE \E j \in 1..Len(merchants) :
                         /\ ent_out.out.merchant = Some(merchants[j])
                         /\ \A k \in 1..Len(merchants) :
                                ScoreGE(score[Least(qualifying)][j],
                                        score[Least(qualifying)][k])

C20_Witness ==
    /\ ent_out.called
    /\ ent_out.q = <<W("zomat"), W("starbuck")>>
    /\ "zomato" \in {merchants[j] : j \in 1..Len(merchants)}
    /\ ScoreGE(fuzz_ratio(Letters("zomat"), Letters("zomato")), Score(88))
    /\ ent_out.out.merchant = Some("starbucks")

\* C24: date resolution is a function of the query text (and a supplied
\* now) only: two resolutions of the same query return the same range
\* whatever the system clock reads at the time of each call.  parse takes no
\* now, so every call is a call with the same supplied now.
C24_RangeIndependentOfClock ==
    [][(date_out.called /\ date_out'.called /\ date_out'.q = date_out.q)
          => date_out'.out = date_out.out]_vars

\* the call on record was decided by rule k of the cascade
DecidedBy(k) ==
    /\ date_out.called
    /\ date_out.q # <<>>
    /\ MatchingRules(date_out.q, date_out.now) # {}
    /\ Least(MatchingRules(date_out.q, date_out.now)) = k

\* C25: for every now, on every weekday, a "last week" query resolves to a
\* range that starts on a Monday at 00:00:00, ends on the Sunday six days
\* later at 23:59:59, and ends on the day just before the Monday of the week
\* that contains now.
C25_LastWeekIsMondayToSunday ==
    DecidedBy(3) =>
        LET start == Val(date_out.out.start)
            end == Val(date_out.out.end)
            monday == _start(date_out.now) - timedelta_days(weekday(date_out.now))
        IN  /\ date_out.out.start # None /\ date_out.out.end # None
            /\ weekday(start) = 0 /\ start = _start(start)
            /\ weekday(end) = 6 /\ end = _end(end)
            /\ end = start + timedelta_days(6) + 86399
            /\ end + 1 = monday

C25_Witness ==
    /\ DecidedBy(3)
    /\ weekday(date_out.now) = 6
    /\ date_out.out.start = Some(datetime(2025, 6, 16, 0, 0, 0))
    /\ date_out.out.end = Some(datetime(2025, 6, 22, 23, 59, 59))

C30_BothBoundsOrNone ==
    (date_out.called /\ ~date_out.out.raised)
    => (date_out.out.start = None <=> date_out.out.end = None)

C30_Witness ==
    /\ date_out.called
    /\ date_out.q = <<W("since"), W("december")>>
    /\ date_out.out.start # None
    /\ date_out.out.end = Some(_end(date_out.now))

C28_StartLabelHoldsRangeTotal ==
    (IsCall("compare_periods") /\ call.impl = "core"
        /\ call.start # None /\ call.end # None)
    => /\ exec_out.kind = "dict"
       /\ YearMonth(Val(call.start)) \in DOMAIN exec_out.value
       /\ exec_out.value[YearMonth(Val(call.start))] =
             SumAmount(ByMerchant(ByCategory(
                 BetweenDates(call.df, Val(call.start), Val(call.end)),
                 call.entities), call.entities))

\* the greatest similarity of the call on record
BestSimilarity ==
    CHOOSE v \in {int_out.sims[i] : i \in 1..Len(int_out.sims)} :
        \A j \in 1..Len(int_out.sims) : int_out.sims[j] <= v

\* C21: the intent returned by match_intent is the label of the example
\* phrase with the highest similarity to the query; of several examples
\* sharing the highest similarity the first in the flattened list decides.
C21_NearestExampleDecides ==
    int_out.called =>
        \E i \in 1..Len(int_out.sims) :
            /\ int_out.sims[i] = BestSimilarity
            /\ \A j \in 1..(i - 1) : int_out.sims[j] < BestSimilarity
            /\ int_out.out.intent = phrase_to_intent[i]

C21_Witness ==
    /\ int_out.called
    /\ int_out.sims[3] = 8127 /\ int_out.sims[12] = 8127
    /\ BestSimilarity = 8127
    /\ phrase_to_intent[12] = "top_category"
    /\ int_out.out.intent = "total_spend"

\* C22: the list_transactions override changes the reported score only,
\* and only upward: the intent is the nearest-neighbour intent either way;
\* for list_transactions and a case-folded query containing "show" or
\* "list" the score is max(similarity, 0.55), in every other case the
\* similarity itself (rounded to 3 decimals).
C22_OverrideOnlyRaisesScore ==
    int_out.called =>
        LET nearest == phrase_to_intent[argmax(int_out.sims)]
            folded == lower(Text(int_out.q))
            override ==
                /\ nearest = "list_transactions"
                /\ \/ Contains(folded, Letters("show"))
                   \/ Contains(folded, Letters("list"))
        IN  /\ int_out.out.intent = nearest
            /\ override =>
                   int_out.out.score =
                       round3(IF BestSimilarity >= 5500 THEN BestSimilarity ELSE 5500)
            /\ ~override => int_out.out.score = round3(BestSimilarity)

C22_Witness ==
    /\ int_out.called
    /\ int_out.q = <<W("List"), W("all"), W("expenses")>>
    /\ int_out.out.intent = "list_transactions"
    /\ BestSimilarity = 4196
    /\ int_out.out.score = 550

\* C23: for every query the confidence score in the result of match_intent
\* lies in [0, 1], for every similarity the embedding comparison can
\* produce (cosine similarity ranges over [-1, 1]).
C23_ScoreInUnitInterval ==
    int_out.called => (int_out.out.score >= 0 /\ int_out.out.score <= 1000)

\* C27: the record returned by match_intent contains every field run_query
\* reads from it (intent, score and margin), so that run_query goes on to
\* entity extraction, date parsing and execution.
C27_RecordHasFieldsRunQueryReads ==
    int_out.called =>
        /\ {"intent", "score", "margin"} \subseteq DOMAIN int_out.out
        /\ ent_out.called
        /\ date_out.called
        /\ date_out.out.raised \/ call.called

====
